---- MODULE Spec2Model ----
(***************************************************************************)
(* Pathfinder (src/main.py): least-cost route between a supplier and a     *)
(* market, a cost disruption of one edge of that route, and the re-solve.  *)
(*                                                                         *)
(* Data frames are sequences of rows, indexed from 1 (pandas: from 0).     *)
(* The min-cost-flow solver is a library; it is modelled by its contract:  *)
(* it reports OPTIMAL with some minimum-cost feasible 0/1 flow, or a       *)
(* non-OPTIMAL status.  Which optimal flow it reports is not determined    *)
(* by main.py, so every optimal flow is a possible outcome.                *)
(***************************************************************************)
EXTENDS Integers, Sequences, FiniteSets

\* ------------------------------------------------------------------ bounds
MaxEdges == 3
MaxCallEdges == 2
MaxCost == 2
MaxRoute == 3
MaxHops == 5

\* disruption_factor=10, the default of simulate_disruption
DefaultFactor == 10

\* Python's None and a present value, kept apart from every value of the model
None == << >>
Some(x) == << x >>
Val(o) == o[1]

\* no node chosen yet
NoNode == "None"

\* ------------------------------------------------------------- input data
NodeIds == {"S", "A", "M"}

NodesWithSupplier ==
  << [id |-> "S", type |-> "supplier"],
     [id |-> "A", type |-> "hub"],
     [id |-> "M", type |-> "market"] >>

NodesWithoutSupplier ==
  << [id |-> "A", type |-> "hub"],
     [id |-> "M", type |-> "market"] >>

PositiveCosts == 1..MaxCost

SignedCosts == {-1, 0, 1}

Factors == {1, 2, DefaultFactor}

EdgeRows(costs) ==
  { [source |-> s, target |-> t, cost_eur |-> c] :
      s \in NodeIds, t \in NodeIds, c \in costs }

\* every edge table of at most max rows between distinct nodes; one row per
\* edge, so two rows with the same endpoints are parallel edges
EdgeTablesUpTo(max, costs) ==
  UNION { [1..n -> { r \in EdgeRows(costs) : r.source # r.target }] : n \in 0..max }

EdgeTables(costs) == EdgeTablesUpTo(MaxEdges, costs)

\* the calls (start_node_id, end_node_id) made on a loaded graph: a connected
\* or unconnected pair, start = end, and an id absent from the node table
Calls == { <<"S", "M">>, <<"S", "S">>, <<"X", "M">>, <<"S", "X">> }

Routes == UNION { [1..n -> NodeIds] : n \in 0..MaxRoute }

\* ------------------------------------------------------------------ state
VARIABLES
  files,               \* nodes.csv and edges.csv as found on disk (None: absent)
  pc,                  \* position of the run
  phase,               \* which solve is running: "normal" or "disrupted"
  nodes_df, edges_df,  \* main's data frames
  start_node, end_node,
  flow,                \* arcs carrying flow in the solved smcf
  total_cost,          \* smcf.optimal_cost()
  path,                \* the path being reconstructed
  current_node_idx,
  hops,                \* iterations of the reconstruction loop so far
  path_normal, cost_normal,
  optimal_path,        \* the route handed to simulate_disruption
  disruption_factor,
  random_index,        \* the edge simulate_disruption selected
  disrupted_edges_df,
  path_disrupted, cost_disrupted,
  impact,              \* the printed cost increase
  map_object,          \* polylines drawn on the map
  map_saved,
  out                  \* lines printed, in order

vars ==
  << files, pc, phase, nodes_df, edges_df, start_node, end_node, flow, total_cost,
     path, current_node_idx, hops, path_normal, cost_normal, optimal_path,
     disruption_factor, random_index, disrupted_edges_df, path_disrupted,
     cost_disrupted, impact, map_object, map_saved, out >>

\* --------------------------------------------------------------- helpers
RECURSIVE SumOver(_, _)
SumOver(f, S) ==
  IF S = {} THEN 0
  ELSE LET x == CHOOSE y \in S : TRUE IN f[x] + SumOver(f, S \ {x})

Min(S) == CHOOSE x \in S : \A y \in S : x <= y

RECURSIVE SeqSum(_)
SeqSum(s) == IF s = << >> THEN 0 ELSE Head(s) + SeqSum(Tail(s))

\* --------------------------------------------- create_id_to_index_mapping
\* {id_str: i for i, id_str in enumerate(node_ids)}: a repeated id keeps its
\* last position
create_id_to_index_mapping(node_ids) ==
  [ id_str \in { node_ids[i] : i \in DOMAIN node_ids } |->
      CHOOSE i \in DOMAIN node_ids :
        /\ node_ids[i] = id_str
        /\ \A j \in DOMAIN node_ids : node_ids[j] = id_str => j <= i ]

IdColumn(nodes) == [ i \in DOMAIN nodes |-> nodes[i].id ]

\* ------------------------------------------------- the min-cost-flow model
\* add_arc_with_capacity_and_unit_cost(tail, head, 1, int(cost)), one arc per
\* row in row order; cost_eur values are integers here
Arcs(edges, id_to_index) ==
  [ i \in DOMAIN edges |->
      [ tail |-> id_to_index[edges[i].source],
        head |-> id_to_index[edges[i].target],
        unit_cost |-> edges[i].cost_eur ] ]

\* set_node_supply(start, 1) then set_node_supply(end, -1): the second call
\* overwrites the first when both name the same node
NodeSupply(n, start_node_index, end_node_index) ==
  [ [ [ i \in 1..n |-> 0 ] EXCEPT ![start_node_index] = 1 ]
      EXCEPT ![end_node_index] = -1 ]

Outflow(arcs, f, n) == Cardinality({ i \in f : arcs[i].tail = n })
Inflow(arcs, f, n) == Cardinality({ i \in f : arcs[i].head = n })

\* capacity 1 on every arc: a flow is the set of arcs that carry one unit
FeasibleFlows(arcs, supply) ==
  { f \in SUBSET (DOMAIN arcs) :
      \A n \in DOMAIN supply : Outflow(arcs, f, n) - Inflow(arcs, f, n) = supply[n] }

FlowCost(arcs, f) == SumOver([ i \in DOMAIN arcs |-> arcs[i].unit_cost ], f)

\* a solver that stops at the first feasible flow
AnyFeasibleFlow(arcs, supply) == FeasibleFlows(arcs, supply)

OptimalFlows(arcs, supply) ==
  LET feasible == FeasibleFlows(arcs, supply)
  IN  { f \in feasible : \A g \in feasible : FlowCost(arcs, f) <= FlowCost(arcs, g) }

\* ------------------------------------------------ find_optimal_path_ortools
\* an empty route at cost 0 in place of None, None
EmptyRouteAtCostZero == [ path |-> Some(<< >>), cost |-> Some(0) ]

\* return None, None
NoPath == [ path |-> None, cost |-> None ]

\* return path, total_cost
Route(p, c) == [ path |-> Some(p), cost |-> Some(c) ]

EndpointsFound(nodes, start_node_id, end_node_id) ==
  LET ids == { nodes[i].id : i \in DOMAIN nodes }
  IN  start_node_id \in ids /\ end_node_id \in ids

EdgesResolve(nodes, edges) ==
  LET ids == { nodes[i].id : i \in DOMAIN nodes }
  IN  \A i \in DOMAIN edges : edges[i].source \in ids /\ edges[i].target \in ids

\* the flows smcf.solve() can report as OPTIMAL for this call
SolverFlows(nodes, edges, start_node_id, end_node_id) ==
  LET id_to_index == create_id_to_index_mapping(IdColumn(nodes))
  IN  OptimalFlows(Arcs(edges, id_to_index),
                   NodeSupply(Len(nodes), id_to_index[start_node_id],
                              id_to_index[end_node_id]))

\* for i in range(num_arcs): if tail(i) == current and flow(i) > 0: ... break
FlowArcsFrom(arcs, f, current) == { i \in f : arcs[i].tail = current }

\* ------------------------------------------------------ simulate_disruption
\* list(zip(optimal_path[:-1], optimal_path[1:])), used for membership only
PathEdges(route) ==
  { << route[i], route[i + 1] >> : i \in 1..(Len(route) - 1) }

OnPathIndices(edges, route) ==
  { i \in DOMAIN edges : << edges[i].source, edges[i].target >> \in PathEdges(route) }

\* if not optimal_path
EmptyRouteOnly(route) == route = << >>

\* if not path_edges
EmptyPath(route) == PathEdges(route) = {}

\* random.choice over every row
AnyIndex(edges, route) == DOMAIN edges

\* the index set random.choice draws from
CandidateIndices(edges, route) ==
  IF OnPathIndices(edges, route) = {} THEN DOMAIN edges ELSE OnPathIndices(edges, route)

\* the outcomes of random.choice in a call: None when the call returns before
\* drawing, or draws from an empty index
RandomChoices(edges, route) ==
  IF EmptyPath(route) \/ CandidateIndices(edges, route) = {}
  THEN { None }
  ELSE { Some(i) : i \in CandidateIndices(edges, route) }

\* the product is computed but not stored
CostLeftAsIs(original_cost, factor) == original_cost

\* the factor is added
CostPlusFactor(original_cost, factor) == original_cost + factor

\* original_cost * disruption_factor
DisruptedCost(original_cost, factor) == original_cost * factor

\* disrupted_edges = edges_df, without the copy
CallerFrameAliased(edges, disrupted_edges) == disrupted_edges

\* disrupted_edges = edges_df.copy(): the caller's frame is a different object
\* from the one the function writes to
CallerFrameAfter(edges, disrupted_edges) == edges

\* the lines printed before the selection
SelectionLog(edges, route) ==
  IF EmptyPath(route) THEN << "WARNING_EMPTY_PATH" >>
  ELSE IF OnPathIndices(edges, route) = {} THEN << "WARNING_FALLBACK" >>
  ELSE << >>

simulate_disruption(edges, route, factor, choice) ==
  IF EmptyPath(route)
  THEN [ caller_frame |-> CallerFrameAfter(edges, edges), returned |-> Some(edges),
         random_index |-> None, raised |-> FALSE,
         log |-> SelectionLog(edges, route) ]
  ELSE IF choice = None
  THEN [ caller_frame |-> CallerFrameAfter(edges, edges), returned |-> None,
         random_index |-> None, raised |-> TRUE,
         log |-> SelectionLog(edges, route) ]
  ELSE LET disrupted_edges ==
             [ edges EXCEPT ![Val(choice)].cost_eur =
                 DisruptedCost(edges[Val(choice)].cost_eur, factor) ]
       IN  [ caller_frame |-> CallerFrameAfter(edges, disrupted_edges),
             returned |-> Some(disrupted_edges),
             random_index |-> choice, raised |-> FALSE,
             log |-> SelectionLog(edges, route) \o << "EVENT_DISRUPTION" >> ]

\* ------------------------------------------------------------------- main
\* a list is true when it is not empty; None is false
Truthy(p) == p # None /\ Val(p) # << >>

\* the map block moved out of the inner if
MapAfterNormalOnly(p_normal, p_disrupted) == Truthy(p_normal)

\* if path_normal: ... if path_disrupted: the map is drawn inside both
MapBranch(p_normal, p_disrupted) == Truthy(p_normal) /\ Truthy(p_disrupted)

OfType(nodes, t) == { nodes[i].id : i \in { j \in DOMAIN nodes : nodes[j].type = t } }

CallTable == IF phase = "normal" THEN Val(edges_df) ELSE Val(disrupted_edges_df)

\* what the caller does with the pair find_optimal_path_ortools returned,
\* after the callee printed `lines`
Returned(res, lines) ==
  IF phase = "normal"
  THEN /\ path_normal' = res.path
       /\ cost_normal' = res.cost
       /\ IF Truthy(res.path)
          THEN /\ out' = out \o lines \o << "OPTIMAL_PATH", "TOTAL_COST" >>
               /\ pc' = "disrupt"
          ELSE /\ out' = out \o lines \o << "INFO_NO_PATH" >>
               /\ pc' = "done"
       /\ UNCHANGED << path_disrupted, cost_disrupted, impact >>
  ELSE /\ path_disrupted' = res.path
       /\ cost_disrupted' = res.cost
       /\ IF Truthy(res.path)
          THEN /\ out' = out \o lines \o << "NEW_PATH", "NEW_COST", "IMPACT" >>
               /\ impact' = Some(Val(res.cost) - Val(cost_normal))
          ELSE /\ out' = out \o lines
               /\ impact' = impact
       /\ pc' = IF MapBranch(path_normal, res.path) THEN "map" ELSE "done"
       /\ UNCHANGED << path_normal, cost_normal >>

LoadData ==
  /\ pc = "load"
  /\ IF files.nodes = None \/ files.edges = None
     THEN /\ out' = out \o << "INFO_INIT", "CRITICAL_LOAD", "CRITICAL_HALT" >>
          /\ pc' = "done"
          /\ UNCHANGED << nodes_df, edges_df >>
     ELSE /\ nodes_df' = files.nodes
          /\ edges_df' = files.edges
          /\ out' = out \o << "INFO_INIT" >>
          /\ pc' = "pick"
  /\ UNCHANGED << files, phase, start_node, end_node, flow, total_cost, path,
                  current_node_idx, hops, path_normal, cost_normal, optimal_path,
                  disruption_factor, random_index, disrupted_edges_df,
                  path_disrupted, cost_disrupted, impact, map_object, map_saved >>

PickEndpoints ==
  /\ pc = "pick"
  /\ LET suppliers == OfType(Val(nodes_df), "supplier")
         markets == OfType(Val(nodes_df), "market")
     IN  IF suppliers = {} \/ markets = {}
         THEN /\ pc' = "crashed"
              /\ UNCHANGED << start_node, end_node, out >>
         ELSE /\ \E s \in suppliers, m \in markets :
                   /\ start_node' = s
                   /\ end_node' = m
              /\ out' = out \o << "INFO_ROUTE", "NORMAL_HEADER" >>
              /\ pc' = "solve"
  /\ UNCHANGED << files, phase, nodes_df, edges_df, flow, total_cost, path,
                  current_node_idx, hops, path_normal, cost_normal, optimal_path,
                  disruption_factor, random_index, disrupted_edges_df,
                  path_disrupted, cost_disrupted, impact, map_object, map_saved >>

\* find_optimal_path_ortools up to the status test
Solve ==
  /\ pc = "solve"
  /\ IF ~EndpointsFound(Val(nodes_df), start_node, end_node)
     THEN /\ Returned(NoPath, << "ERROR_NODE_NOT_FOUND" >>)
          /\ UNCHANGED << flow, total_cost, path, current_node_idx, hops >>
     ELSE IF ~EdgesResolve(Val(nodes_df), CallTable)
     THEN /\ pc' = "crashed"
          /\ UNCHANGED << flow, total_cost, path, current_node_idx, hops, out,
                          path_normal, cost_normal, path_disrupted,
                          cost_disrupted, impact >>
     ELSE LET id_to_index == create_id_to_index_mapping(IdColumn(Val(nodes_df)))
              flows == SolverFlows(Val(nodes_df), CallTable, start_node, end_node)
          IN  IF flows = {}
              THEN /\ Returned(NoPath, << >>)
                   /\ UNCHANGED << flow, total_cost, path, current_node_idx, hops >>
              ELSE /\ \E f \in flows :
                        /\ flow' = f
                        /\ total_cost' = FlowCost(Arcs(CallTable, id_to_index), f)
                   /\ path' = << start_node >>
                   /\ current_node_idx' = id_to_index[start_node]
                   /\ hops' = 0
                   /\ pc' = "trace"
                   /\ UNCHANGED << out, path_normal, cost_normal, path_disrupted,
                                   cost_disrupted, impact >>
  /\ UNCHANGED << files, phase, nodes_df, edges_df, start_node, end_node,
                  optimal_path, disruption_factor, random_index,
                  disrupted_edges_df, map_object, map_saved >>

\* smcf.solve() ends with a status other than OPTIMAL although the endpoints
\* are connected (the solver refuses the instance, e.g. its cost range)
SolverRejects ==
  /\ pc = "solve"
  /\ EndpointsFound(Val(nodes_df), start_node, end_node)
  /\ EdgesResolve(Val(nodes_df), CallTable)
  /\ Returned(NoPath, << >>)
  /\ UNCHANGED << files, phase, nodes_df, edges_df, start_node, end_node, flow,
                  total_cost, path, current_node_idx, hops, optimal_path,
                  disruption_factor, random_index, disrupted_edges_df,
                  map_object, map_saved >>

\* one iteration of: while node_ids[current_node_idx] != end_node_id
TraceStep ==
  /\ pc = "trace"
  /\ hops < MaxHops
  /\ IdColumn(Val(nodes_df))[current_node_idx] # end_node
  /\ LET id_to_index == create_id_to_index_mapping(IdColumn(Val(nodes_df)))
         arcs == Arcs(CallTable, id_to_index)
         from == FlowArcsFrom(arcs, flow, current_node_idx)
     IN  IF from # {}
         THEN /\ path' = Append(path, IdColumn(Val(nodes_df))[arcs[Min(from)].head])
              /\ current_node_idx' = arcs[Min(from)].head
         ELSE UNCHANGED << path, current_node_idx >>
  /\ hops' = hops + 1
  /\ UNCHANGED << files, pc, phase, nodes_df, edges_df, start_node, end_node,
                  flow, total_cost, path_normal, cost_normal, optimal_path,
                  disruption_factor, random_index, disrupted_edges_df,
                  path_disrupted, cost_disrupted, impact, map_object, map_saved,
                  out >>

\* the loop ends: return path, total_cost
ReturnPath ==
  /\ pc = "trace"
  /\ IdColumn(Val(nodes_df))[current_node_idx] = end_node
  /\ Returned(Route(path, total_cost), << >>)
  /\ UNCHANGED << files, phase, nodes_df, edges_df, start_node, end_node, flow,
                  total_cost, path, current_node_idx, hops, optimal_path,
                  disruption_factor, random_index, disrupted_edges_df,
                  map_object, map_saved >>

\* a call simulate_disruption(edges_df, route, factor), then the caller's next
\* position
CallDisruption(route, factor, next_pc) ==
  /\ \E choice \in RandomChoices(Val(edges_df), route) :
       LET res == simulate_disruption(Val(edges_df), route, factor, choice)
       IN  /\ edges_df' = Some(res.caller_frame)
           /\ disrupted_edges_df' = res.returned
           /\ random_index' = res.random_index
           /\ IF res.raised
              THEN /\ pc' = "crashed"
                   /\ out' = out \o res.log
              ELSE /\ pc' = next_pc
                   /\ out' = out \o res.log
                             \o (IF next_pc = "solve" THEN << "POST_HEADER" >> ELSE << >>)
  /\ optimal_path' = Some(route)
  /\ disruption_factor' = Some(factor)
  /\ phase' = "disrupted"
  /\ UNCHANGED << files, nodes_df, start_node, end_node, flow, total_cost, path,
                  current_node_idx, hops, path_normal, cost_normal,
                  path_disrupted, cost_disrupted, impact, map_object, map_saved >>

\* main: simulate_disruption(edges_df, path_normal)
Disrupt ==
  /\ pc = "disrupt"
  /\ CallDisruption(Val(path_normal), DefaultFactor, "solve")

\* the same step of a run whose caller passes the factor
DisruptWithFactor ==
  /\ pc = "disrupt"
  /\ \E factor \in Factors : CallDisruption(Val(path_normal), factor, "solve")

\* a direct call of simulate_disruption with any route and factor
DisruptCall ==
  /\ pc = "call"
  /\ \E route \in Routes, factor \in Factors : CallDisruption(route, factor, "called")

\* create_map twice (blue, red), then map_object.save
GenerateMap ==
  /\ pc = "map"
  /\ map_object' = << [ path |-> path_normal, color |-> "blue" ],
                      [ path |-> path_disrupted, color |-> "red" ] >>
  /\ map_saved' = TRUE
  /\ out' = out \o << "INFO_VIS", "SUCCESS_MAP" >>
  /\ pc' = "done"
  /\ UNCHANGED << files, phase, nodes_df, edges_df, start_node, end_node, flow,
                  total_cost, path, current_node_idx, hops, path_normal,
                  cost_normal, optimal_path, disruption_factor, random_index,
                  disrupted_edges_df, path_disrupted, cost_disrupted, impact >>

\* --------------------------------------------------------- specifications
Fresh ==
  /\ phase = "normal"
  /\ flow = {} /\ total_cost = 0 /\ path = << >>
  /\ current_node_idx = 0 /\ hops = 0
  /\ path_normal = None /\ cost_normal = None
  /\ optimal_path = None /\ disruption_factor = None /\ random_index = None
  /\ disrupted_edges_df = None
  /\ path_disrupted = None /\ cost_disrupted = None /\ impact = None
  /\ map_object = << >> /\ map_saved = FALSE
  /\ out = << >>

\* a run of main: the two files are present or not
Init ==
  /\ files \in { [ nodes |-> n, edges |-> e ] :
                   n \in { None, Some(NodesWithSupplier), Some(NodesWithoutSupplier) },
                   e \in { None } \cup { Some(t) : t \in EdgeTables(PositiveCosts) } }
  /\ pc = "load"
  /\ nodes_df = None /\ edges_df = None
  /\ start_node = NoNode /\ end_node = NoNode
  /\ Fresh

Next ==
  \/ LoadData
  \/ PickEndpoints
  \/ Solve
  \/ SolverRejects
  \/ TraceStep
  \/ ReturnPath
  \/ Disrupt
  \/ GenerateMap

Spec == Init /\ [][Next]_vars

\* the caller holds a loaded graph
Loaded(tables) ==
  /\ files \in { [ nodes |-> Some(NodesWithSupplier), edges |-> Some(e) ] :
                   e \in tables }
  /\ nodes_df = files.nodes /\ edges_df = files.edges
  /\ Fresh

\* solve, disrupt by a chosen factor, solve again
InitScenario ==
  /\ Loaded(EdgeTables(PositiveCosts))
  /\ pc = "solve"
  /\ \E c \in Calls : start_node = c[1] /\ end_node = c[2]

NextScenario ==
  \/ Solve
  \/ TraceStep
  \/ ReturnPath
  \/ DisruptWithFactor

SpecScenario == InitScenario /\ [][NextScenario]_vars

\* direct calls of simulate_disruption
InitDisrupt ==
  /\ Loaded(EdgeTablesUpTo(MaxCallEdges, PositiveCosts))
  /\ pc = "call"
  /\ start_node = NoNode /\ end_node = NoNode

NextDisrupt == DisruptCall

SpecDisrupt == InitDisrupt /\ [][NextDisrupt]_vars

\* one solve on a graph whose costs may be zero or negative
InitSigned ==
  /\ Loaded(EdgeTables(SignedCosts))
  /\ pc = "solve"
  /\ \E c \in Calls : start_node = c[1] /\ end_node = c[2]

NextSigned ==
  \/ Solve
  \/ TraceStep
  \/ ReturnPath

SpecSigned == InitSigned /\ [][NextSigned]_vars

\* ----------------------------------------------------- graph-level notions
\* every sequence of at most Len(edges) edge indices
EdgeSequences(edges) == UNION { [1..n -> DOMAIN edges] : n \in 0..Len(edges) }

\* w is a walk from s to t along the rows of edges (the empty walk when s = t)
IsWalk(edges, s, t, w) ==
  IF w = << >> THEN s = t
  ELSE /\ edges[w[1]].source = s
       /\ edges[w[Len(w)]].target = t
       /\ \A i \in 1..(Len(w) - 1) : edges[w[i]].target = edges[w[i + 1]].source

ConnectingWalks(edges, s, t) ==
  { w \in EdgeSequences(edges) : IsWalk(edges, s, t, w) }

WalkNodes(edges, s, w) == << s >> \o [ i \in 1..Len(w) |-> edges[w[i]].target ]

WalkCost(edges, w) == SeqSum([ i \in 1..Len(w) |-> edges[w[i]].cost_eur ])

Reachable(edges, s, t) == ConnectingWalks(edges, s, t) # {}

BaseEdges == Val(files.edges)

\* the normal solve has returned to its caller
NormalReturned == phase = "normal" /\ pc \in { "disrupt", "done" }

\* the disrupted solve has returned to its caller
DisruptedReturned == phase = "disrupted" /\ pc \in { "map", "done" }

\* the pair returned by the normal solve is a least-cost route of the graph
NormalRouteIsOptimal ==
  /\ path_normal # None
  /\ cost_normal # None
  /\ LET p == Val(path_normal)
         c == Val(cost_normal)
         walks == ConnectingWalks(BaseEdges, start_node, end_node)
     IN  /\ p # << >>
         /\ p[1] = start_node
         /\ p[Len(p)] = end_node
         /\ \E w \in walks : WalkNodes(BaseEdges, start_node, w) = p
                             /\ WalkCost(BaseEdges, w) = c
         /\ \A w \in walks : c <= WalkCost(BaseEdges, w)

C6_NoPathWhenUnreachable ==
  ( /\ NormalReturned
    /\ EndpointsFound(Val(nodes_df), start_node, end_node)
    /\ ~Reachable(BaseEdges, start_node, end_node) )
  => ( path_normal = None /\ cost_normal = None )

\* the source has outgoing edges, none of which leads to the sink
C6_Witness ==
  /\ NormalReturned
  /\ EndpointsFound(Val(nodes_df), start_node, end_node)
  /\ ~Reachable(BaseEdges, start_node, end_node)
  /\ \E i \in DOMAIN BaseEdges : BaseEdges[i].source = start_node
  /\ path_normal = None

\* C4: after an edge of the computed route is disrupted and the route solved
\* again, the new cost is at least the old one, and equal only if the factor
\* is 1 or a source-to-sink walk of the old optimal cost avoids that edge.
C4_DisruptionNeverCheaper ==
  ( DisruptedReturned /\ random_index # None )
  => /\ cost_disrupted # None
     /\ Val(cost_disrupted) >= Val(cost_normal)
     /\ ( Val(cost_disrupted) = Val(cost_normal) =>
            \/ Val(disruption_factor) = 1
            \/ \E w \in ConnectingWalks(BaseEdges, start_node, end_node) :
                 /\ WalkCost(BaseEdges, w) = Val(cost_normal)
                 /\ \A i \in 1..Len(w) : w[i] # Val(random_index) )

\* the disruption moved the route and made it strictly dearer
C4_Witness ==
  /\ DisruptedReturned
  /\ random_index # None
  /\ Val(disruption_factor) > 1
  /\ Val(cost_disrupted) > Val(cost_normal)
  /\ path_disrupted # path_normal

Printed(line) == \E i \in DOMAIN out : out[i] = line

MapInvoked == map_object # << >> \/ map_saved

\* C7: the map is drawn and saved only in a run whose files loaded, whose
\* start and end nodes were chosen, and whose normal and disrupted solves both
\* returned a route; in every other run there is no map.
C7_MapOnlyAfterBothRoutes ==
  MapInvoked =>
    /\ files.nodes # None /\ files.edges # None
    /\ start_node # NoNode /\ end_node # NoNode
    /\ Truthy(path_normal) /\ Truthy(path_disrupted)
    /\ cost_normal # None /\ cost_disrupted # None

\* the map was saved at the end of a complete run
C7_Witness ==
  /\ pc = "done"
  /\ map_saved
  /\ Len(map_object) = 2
  /\ Truthy(path_normal) /\ Truthy(path_disrupted)

\* C8: when the disrupted solve returns no path after the normal solve found
\* a route, the run prints "no comparison available", prints no cost delta,
\* and leaves the normal route and cost as they were.
C8_NoComparisonReported ==
  [][ ( /\ phase = "disrupted" /\ pc = "solve"
        /\ Truthy(path_normal)
        /\ pc' = "done" /\ path_disrupted' = None )
      => /\ Printed("NO_COMPARISON")'
         /\ impact' = None
         /\ ~Printed("IMPACT")'
         /\ path_normal' = path_normal
         /\ cost_normal' = cost_normal ]_vars

\* C9: the reconstruction loop never runs for more iterations than there are
\* nodes: beyond that it has stopped with an error.
C9_ReconstructionBounded ==
  pc = "trace" => hops <= Len(Val(nodes_df))

\* ------------------------------------------- direct calls of the disruption
CallReturned == pc = "called"

CallEnded == pc \in { "called", "crashed" }

RouteArg == Val(optimal_path)

\* the consecutive (source, target) pairs of a route
ConsecutivePairs(route) ==
  { << route[i], route[i + 1] >> : i \in { j \in DOMAIN route : j + 1 \in DOMAIN route } }

Matches(row, route) == << row.source, row.target >> \in ConsecutivePairs(route)

\* C2: for a route of at least two nodes, the returned table differs from the
\* input only in the selected row, whose cost is the original cost times the
\* factor; endpoints and every other row, parallel ones included, are equal.
C2_OnlySelectedEdgeScaled ==
  ( CallReturned /\ Len(RouteArg) >= 2 )
  => /\ random_index # None
     /\ disrupted_edges_df # None
     /\ LET i == Val(random_index)
            before == BaseEdges
            after == Val(disrupted_edges_df)
        IN  /\ DOMAIN after = DOMAIN before
            /\ i \in DOMAIN before
            /\ after[i].cost_eur = before[i].cost_eur * Val(disruption_factor)
            /\ after[i].source = before[i].source
            /\ after[i].target = before[i].target
            /\ \A j \in DOMAIN before : j # i => after[j] = before[j]

\* an edge was scaled by 10 while a parallel edge kept its cost
C2_Witness ==
  /\ CallReturned
  /\ Len(RouteArg) >= 2
  /\ random_index # None
  /\ Val(disruption_factor) = DefaultFactor
  /\ \E j \in DOMAIN BaseEdges :
       /\ j # Val(random_index)
       /\ BaseEdges[j].source = BaseEdges[Val(random_index)].source
       /\ BaseEdges[j].target = BaseEdges[Val(random_index)].target
       /\ Val(disrupted_edges_df)[j] = BaseEdges[j]
  /\ Val(disrupted_edges_df) # BaseEdges

\* C3: after any call (an edge of the route selected, the fallback, the early
\* return, or the draw from an empty table) the table handed in is as it was.
C3_InputTableUntouched ==
  CallEnded => edges_df = files.edges

\* the returned table was changed and the one handed in was not
C3_Witness ==
  /\ CallReturned
  /\ random_index # None
  /\ disrupted_edges_df # files.edges
  /\ edges_df = files.edges

\* C5: for a route of fewer than two nodes the call warns of an empty path,
\* selects no edge and returns the table with every cost as in the input.
C5_EmptyPathLeavesCosts ==
  ( CallEnded /\ Len(RouteArg) < 2 )
  => /\ pc = "called"
     /\ Printed("WARNING_EMPTY_PATH")
     /\ ~Printed("EVENT_DISRUPTION")
     /\ random_index = None
     /\ disrupted_edges_df = files.edges

\* a one-node route on a table that has edges to pick from
C5_Witness ==
  /\ CallReturned
  /\ Len(RouteArg) = 1
  /\ BaseEdges # << >>
  /\ Printed("WARNING_EMPTY_PATH")

\* C10: for a route of at least two nodes the selected edge matches a
\* consecutive pair of the route whenever some edge of the table does; an
\* edge that matches none is selected only when no edge matches, and then the
\* fallback warning is printed before the disruption event.
C10_SelectionPrefersRoute ==
  ( CallReturned /\ Len(RouteArg) >= 2 /\ random_index # None )
  => LET sel == BaseEdges[Val(random_index)]
         some_match == \E j \in DOMAIN BaseEdges : Matches(BaseEdges[j], RouteArg)
     IN  /\ some_match => Matches(sel, RouteArg)
         /\ ~Matches(sel, RouteArg) =>
              /\ ~some_match
              /\ \E a \in DOMAIN out, b \in DOMAIN out :
                   /\ a < b
                   /\ out[a] = "WARNING_FALLBACK"
                   /\ out[b] = "EVENT_DISRUPTION"
         /\ Matches(sel, RouteArg) => ~Printed("WARNING_FALLBACK")

\* an edge of the route was selected from a table that also holds an edge off
\* the route
C10_Witness ==
  /\ CallReturned
  /\ Len(RouteArg) >= 2
  /\ random_index # None
  /\ Matches(BaseEdges[Val(random_index)], RouteArg)
  /\ \E j \in DOMAIN BaseEdges : ~Matches(BaseEdges[j], RouteArg)

====
